---- MODULE Spec2Model ----
(***************************************************************************)
(* The auction/bidding engine of VirtuoNext: one Ask stored in the         *)
(* database (tables asks, bids, contact_reveals, relationships, with their *)
(* row-level-security policies and the on_bid_accepted trigger), and the   *)
(* browser sessions that read it into React state (fetchAsks) and write it *)
(* through the Marketplace handlers (handlePlaceBid, handleAcceptBid).     *)
(* Every await of a handler is a separate step: other sessions, the clock  *)
(* and the expiry sweep interleave between the database requests.          *)
(*                                                                         *)
(* Time is counted in ticks of 30 seconds, so the 60 * 1000 ms final       *)
(* window of handlePlaceBid is SnipeWindow = 2 ticks.                      *)
(***************************************************************************)
EXTENDS Integers, Sequences, FiniteSets, TLC

\* ---- bounds of the model ----
MaxBids == 2          \* rows of table bids
MaxTime == 4          \* last tick of the clock
MaxFailures == 1      \* transient request failures injected in one behaviour
MaxCalls == 3         \* handler invocations (button presses) in one behaviour
AuctionEnd0 == 2      \* auction_end_time of the Ask when it has one
MaxHours == 1         \* whole hours that go by at once
MaxRels == 4          \* rows of table relationships written by acceptances on other Asks
MaxDups == 1          \* change notifications delivered a second time
MaxStaleBids == 3     \* rows of table bids where only bidding is followed

\* ---- program constants ----
SnipeWindow == 2      \* 60 * 1000 ms, in ticks of 30 s
FirstInstance == 1    \* the fallback / first instance number 0001
InstanceModulus == 10000  \* slice(-4) keeps the last four decimal digits
HourTicks == 120      \* INTERVAL '1 hour', in ticks of 30 s

NoEnd == -1           \* auction_end_time IS NULL
NoBid == 0
NoCode == <<>>

Soloist == "s"
Pianists == {"p1", "p2"}
\* another user whose profile name is the owner's
Namesake == "m"
Users == {Soloist, Namesake} \cup Pianists
Clients == {"c1", "c2"}

\* profiles.user_type
UserType(u) == IF u \in Pianists THEN "pianist" ELSE "soloist"

\* display names, as sequences of space-separated tokens of letters
UserName(u) ==
  CASE u \in {"s", "m"} -> << <<"M","a","r","y">>, <<"S","m","i","t","h">> >>
    [] u = "p1" -> << <<"J","o","h","n">>, <<"D","o","e">> >>
    [] u = "p2" -> << <<"A","l">> >>

VARIABLES
  now,        \* the wall clock (shared by the sessions and the database)
  askStatus,  \* asks.auction_status
  askEnd,     \* asks.auction_end_time
  archived,   \* asks.archived_at IS NOT NULL
  bids,       \* table bids, in created_at order: [user, status]
  reveals,    \* table contact_reveals: the bid_id of each row
  rels,       \* table relationships: [bid, pianist, soloist, code]
  user,       \* the user logged in at each session
  local,      \* React state `asks` of each session
  pc,         \* where each session's running handler is
  tgt,        \* bidId of the running handleAcceptBid
  todo,       \* bid updates of Promise.all still in flight
  ext,        \* newEndTime handlePlaceBid will write, NoEnd when not isLastMinute
  relCode,    \* relationshipId generated for the insert
  outcome,    \* how the session's last handler returned
  failures,   \* transient failures injected so far
  calls,      \* handlers invoked so far
  changed,    \* history: the running/last acceptBid changed a stored status
  resolved,   \* history: the Ask was already completed when the acceptBid was called
  expEnd,     \* history: end time the anti-snipe contract asks for
  overlap,    \* history: the two last acceptBid calls overlapped, on different bids
  revealConflict, \* history: the trigger's insert hit ON CONFLICT
  wantEnd,    \* history: the end time under the anti-snipe contract
  subscribed, \* sessions whose realtime channel is followed request by request
  due,        \* fetchAsks calls of each session whose asks request is not served yet
  reading,    \* asks rows held by the fetchAsks calls awaiting their bids request
  dups        \* notifications delivered twice so far

dbVars == <<askStatus, askEnd, archived, bids, reveals, rels>>
cliVars == <<user, local, pc, tgt, todo, ext, relCode, outcome>>
histVars == <<changed, resolved, expEnd, overlap, revealConflict, wantEnd>>
obsVars == <<subscribed, due, reading, dups>>
vars == <<now, dbVars, cliVars, failures, calls, histVars, obsVars>>

Statuses == {"pending", "accepted", "rejected"}

\* ---------------------------------------------------------------------
\* React state and the AskCard gates
\* ---------------------------------------------------------------------
NoLocal == [loaded |-> FALSE, status |-> "active", end |-> NoEnd, archived |-> FALSE,
            bstat |-> <<>>]

\* fetchAsks: the asks row and its bids as stored now
Snapshot == [loaded |-> TRUE, status |-> askStatus, end |-> askEnd,
             archived |-> archived,
             bstat |-> [i \in DOMAIN bids |-> bids[i].status]]

isMyAsk(c) == UserName(Soloist) = UserName(user[c])

hasAcceptedBid(l) == \E i \in DOMAIN l.bstat : l.bstat[i] = "accepted"

\* AuctionTimer, calculateTimeLeft(endTime).isExpired
timerIsExpired(endTime) ==
  LET difference == endTime - now
  IN difference <= 0

isAuctionExpired(l) == l.end # NoEnd /\ l.end < now

\* a later bid of the same pianistName is in the session's copy
newerBidExists(l, b) ==
  \E j \in DOMAIN l.bstat : j > b /\ UserName(bids[j].user) = UserName(bids[b].user)

\* bids.amount: in the model each pianist always offers the same amount
Amount(u) == IF u = "p1" THEN 90 ELSE 85

RECURSIVE SumAmounts(_)
SumAmounts(S) ==
  IF S = {} THEN 0
  ELSE LET i == CHOOSE x \in S : TRUE IN Amount(bids[i].user) + SumAmounts(S \ {i})

\* Math.round(x / n) for x >= 0, n > 0
RoundDiv(x, n) == (2 * x + n) \div (2 * n)

\* the bid statistics of the card
pendingBids(l) == {i \in DOMAIN l.bstat : l.bstat[i] = "pending"}

\* the "Total Bids" line: ask.bids.length
totalBids(l) == Len(l.bstat)

lowestBid(l) ==
  IF pendingBids(l) = {} THEN 0
  ELSE LET i == CHOOSE x \in pendingBids(l) :
                  \A y \in pendingBids(l) : Amount(bids[x].user) <= Amount(bids[y].user)
       IN Amount(bids[i].user)

averageBid(l) ==
  IF pendingBids(l) = {} THEN 0
  ELSE RoundDiv(SumAmounts(pendingBids(l)), Cardinality(pendingBids(l)))

\* ask.bids.filter(bid => bid.pianistName === userName)
myBids(c) ==
  {i \in DOMAIN local[c].bstat : UserName(bids[i].user) = UserName(user[c])}

\* myBids.find(bid => bid.status === 'pending'), NoBid when undefined
myActiveBid(c) ==
  LET mine == {i \in myBids(c) : local[c].bstat[i] = "pending"}
  IN IF mine = {} THEN NoBid ELSE CHOOSE i \in mine : \A j \in mine : i <= j

\* the Place Bid button is rendered
CanOpenBidModal(c) ==
  /\ local[c].loaded
  /\ ~local[c].archived
  /\ UserType(user[c]) = "pianist"
  /\ ~isMyAsk(c)
  /\ ~hasAcceptedBid(local[c])
  /\ ~isAuctionExpired(local[c])
  /\ local[c].status # "expired"
  /\ local[c].status # "completed"

\* the Accept button of bid b is rendered
CanAcceptClick(c, b) ==
  /\ local[c].loaded
  /\ ~local[c].archived
  /\ b \in DOMAIN local[c].bstat
  /\ isMyAsk(c)
  /\ local[c].bstat[b] = "pending"
  /\ ~hasAcceptedBid(local[c])
  /\ ~newerBidExists(local[c], b)

\* ---------------------------------------------------------------------
\* The database: policies, constraints and the trigger
\* ---------------------------------------------------------------------
\* a policy that lets every user update the Ask
CanUpdateAskAnyone(u) == u \in Users

\* policy "Users can update their own asks"
CanUpdateAsk(u) == u = Soloist

\* policy "Ask owners can update bid status"
CanUpdateBid(u) == u = Soloist

\* INSERT INTO contact_reveals ... ON CONFLICT (ask_id, bid_id) DO NOTHING
InsertContactRevealAlways(rv, b) == Append(rv, b)

InsertContactReveal(rv, b) ==
  IF \E k \in DOMAIN rv : rv[k] = b THEN rv ELSE Append(rv, b)

\* postgres_changes: n row changes of asks or bids each call fetchAsks in
\* every subscribed session
Publish(n) ==
  /\ due' = [c \in Clients |-> IF c \in subscribed THEN due[c] + n ELSE due[c]]
  /\ UNCHANGED <<subscribed, reading, dups>>

\* a trigger whose condition is never met
AcceptanceNeverFires(old, new) == FALSE

\* trigger on_bid_accepted fires its body
AcceptanceFires(old, new) == new = "accepted" /\ old # "accepted"

\* UPDATE bids SET status = st WHERE id = b, as user u, with its trigger
UpdateBidStatus(c, b, st) ==
  IF CanUpdateBid(user[c])
  THEN /\ bids' = [bids EXCEPT ![b].status = st]
       /\ IF AcceptanceFires(bids[b].status, st)
          THEN /\ reveals' = InsertContactReveal(reveals, b)
               /\ askStatus' = "completed"
               /\ revealConflict' = (revealConflict \/ \E k \in DOMAIN reveals : reveals[k] = b)
          ELSE UNCHANGED <<reveals, askStatus, revealConflict>>
       /\ changed' = [changed EXCEPT ![c] =
                        @ \/ bids[b].status # st \/ askStatus' # askStatus]
  ELSE UNCHANGED <<bids, reveals, askStatus, revealConflict, changed>>

\* ---------------------------------------------------------------------
\* Relationship codes
\* ---------------------------------------------------------------------
Upper(ch) ==
  CASE ch = "a" -> "A" [] ch = "e" -> "E" [] ch = "h" -> "H" [] ch = "i" -> "I"
    [] ch = "l" -> "L" [] ch = "m" -> "M" [] ch = "n" -> "N" [] ch = "o" -> "O"
    [] ch = "r" -> "R" [] ch = "t" -> "T" [] ch = "y" -> "Y" [] OTHER -> ch

getInitials(name) ==
  LET parts == SelectSeq(name, LAMBDA p : Len(p) > 0)
      raw == IF Len(parts) >= 2 THEN <<parts[1][1], parts[2][1]>>
             ELSE IF Len(parts) = 1
                  THEN IF Len(parts[1]) >= 2 THEN <<parts[1][1], parts[1][2]>>
                       ELSE <<parts[1][1], "X">>
                  ELSE <<"X", "X">>
  IN [i \in 1..2 |-> Upper(raw[i])]

\* parseInt(relationship_id.slice(-4), 10)
InstanceOf(code) == code.num % InstanceModulus

startsWith(code, pre) == code.pre = pre

SetMax(S) == IF S = {} THEN 0 ELSE CHOOSE x \in S : \A y \in S : y <= x

\* the lookup without its filter on the two user ids
generateRelationshipIdAnyPair(pianist, soloist) ==
  LET pi == getInitials(UserName(pianist))
      si == getInitials(UserName(soloist))
      matching == {k \in DOMAIN rels :
                     \/ startsWith(rels[k].code, pi \o si)
                     \/ startsWith(rels[k].code, si \o pi)}
      maxInstance == SetMax({InstanceOf(rels[k].code) : k \in matching})
  IN [pre |-> pi \o si, num |-> maxInstance + 1]

\* generateRelationshipId after a successful lookup
generateRelationshipId(pianist, soloist) ==
  LET pi == getInitials(UserName(pianist))
      si == getInitials(UserName(soloist))
      existing == {k \in DOMAIN rels :
                     \/ rels[k].pianist = pianist /\ rels[k].soloist = soloist
                     \/ rels[k].pianist = soloist /\ rels[k].soloist = pianist}
      matching == {k \in existing :
                     \/ startsWith(rels[k].code, pi \o si)
                     \/ startsWith(rels[k].code, si \o pi)}
      maxInstance == SetMax({InstanceOf(rels[k].code) : k \in matching})
  IN [pre |-> pi \o si, num |-> maxInstance + 1]

\* the fallback when the lookup returns an error
fallbackRelationshipId(pianist, soloist) ==
  [pre |-> getInitials(UserName(pianist)) \o getInitials(UserName(soloist)),
   num |-> FirstInstance]

\* policy "Users can create relationships"
CanInsertRelationship(u, row) == u = row.pianist \/ u = row.soloist

\* the table without its constraint
CodeTakenNever(code) == FALSE

\* relationship_id TEXT UNIQUE
CodeTaken(code) == \E k \in DOMAIN rels : rels[k].code = code

\* ---------------------------------------------------------------------
\* Initial state
\* ---------------------------------------------------------------------
\* pending bids placed before the sessions of the model logged in
InitialBids ==
  UNION {[1..n -> [user : Pianists, status : {"pending"}]] : n \in 0..MaxBids}

\* the sessions have just logged in, nothing is loaded or running; a followed
\* session has its initial fetchAsks(true) under way
InitObserved(logins, observers) ==
  /\ now = 0
  /\ askStatus = "active"
  /\ askEnd \in {AuctionEnd0, NoEnd}
  /\ archived = FALSE
  /\ bids \in InitialBids
  /\ reveals = <<>>
  /\ rels = <<>>
  /\ user \in logins
  /\ local = [c \in Clients |-> NoLocal]
  /\ pc = [c \in Clients |-> "idle"]
  /\ tgt = [c \in Clients |-> NoBid]
  /\ todo = [c \in Clients |-> {}]
  /\ ext = [c \in Clients |-> NoEnd]
  /\ relCode = [c \in Clients |-> NoCode]
  /\ outcome = [c \in Clients |-> "none"]
  /\ failures = 0
  /\ calls = 0
  /\ changed = [c \in Clients |-> FALSE]
  /\ resolved = [c \in Clients |-> FALSE]
  /\ expEnd = [c \in Clients |-> NoEnd]
  /\ overlap = FALSE
  /\ revealConflict = FALSE
  /\ wantEnd = askEnd
  /\ subscribed = observers
  /\ due = [c \in Clients |-> IF c \in observers THEN 1 ELSE 0]
  /\ reading = [c \in Clients |-> {}]
  /\ dups = 0

\* the sessions' refetches taken as single reads (Fetch)
InitWith(logins) == InitObserved(logins, {})

\* the Ask's owner in one session, a pianist in the other
Init == InitWith({[c \in Clients |-> IF c = "c1" THEN Soloist ELSE "p1"]})

\* the Ask's owner logged in at both sessions
InitAccept == InitWith({[c \in Clients |-> Soloist]}) /\ askEnd = AuctionEnd0

\* the Ask's owner, and the other user of the same name
InitNamesake == InitWith({[c \in Clients |-> IF c = "c1" THEN Soloist ELSE Namesake]})

\* two pianists
InitBidders == InitWith({[c \in Clients |-> IF c = "c1" THEN "p1" ELSE "p2"]})

\* ---------------------------------------------------------------------
\* Clock, sweep and reads
\* ---------------------------------------------------------------------
Tick ==
  /\ now < MaxTime
  /\ now' = now + 1
  /\ UNCHANGED obsVars
  /\ UNCHANGED <<calls, dbVars, cliVars, failures, histVars>>

\* the sweep with a missing end time taken as a time already past
ExpireSweepNoEndPast ==
  /\ askEnd < now
  /\ askStatus = "active"
  /\ askStatus' = "expired"
  /\ Publish(1)
  /\ UNCHANGED <<calls, now, askEnd, archived, bids, reveals, rels, cliVars, failures,
                 histVars>>

\* expire_old_auctions()
ExpireSweep ==
  /\ askEnd # NoEnd
  /\ askEnd < now
  /\ askStatus = "active"
  /\ askStatus' = "expired"
  /\ Publish(1)
  /\ UNCHANGED <<calls, now, askEnd, archived, bids, reveals, rels, cliVars, failures,
                 histVars>>

\* fetchAsks of the initial load or of a realtime notification, served while
\* no handler of the session is in flight (each handler ends with its own fetch)
Fetch(c) ==
  /\ pc[c] \in {"idle", "modal"}
  /\ local[c] # Snapshot
  /\ local' = [local EXCEPT ![c] = Snapshot]
  /\ UNCHANGED obsVars
  /\ UNCHANGED <<calls, now, dbVars, user, pc, tgt, todo, ext, relCode, outcome,
                 failures, histVars>>

\* ---------------------------------------------------------------------
\* The realtime subscription, request by request
\* ---------------------------------------------------------------------
\* the asks row as stored now
AskRow == [status |-> askStatus, end |-> askEnd, archived |-> archived]

\* a handler that appends the notified row to the local bids
setAsksAsPatch(l, row, rows) ==
  IF rows = <<>> THEN [l EXCEPT !.loaded = TRUE]
  ELSE [l EXCEPT !.loaded = TRUE, !.bstat = Append(@, rows[Len(rows)].status)]

\* setAsks(asksWithBids): the asks row and the bids rows the two selects
\* returned, whatever the state held before
setAsks(l, row, rows) ==
  [loaded |-> TRUE, status |-> row.status, end |-> row.end, archived |-> row.archived,
   bstat |-> [i \in DOMAIN rows |-> rows[i].status]]

\* fetchAsks: the select on asks of one of the session's calls is served
FetchAsksServed(c) ==
  /\ c \in subscribed
  /\ due[c] > 0
  /\ due' = [due EXCEPT ![c] = @ - 1]
  /\ reading' = [reading EXCEPT ![c] = @ \cup {AskRow}]
  /\ UNCHANGED <<now, dbVars, cliVars, failures, calls, histVars, subscribed, dups>>

\* fetchAsks: the select on bids of a call is served and setAsks runs
FetchBidsServed(c, row) ==
  /\ row \in reading[c]
  /\ reading' = [reading EXCEPT ![c] = @ \ {row}]
  /\ local' = [local EXCEPT ![c] = setAsks(local[c], row, bids)]
  /\ UNCHANGED <<now, dbVars, user, pc, tgt, todo, ext, relCode, outcome, failures,
                 calls, histVars, subscribed, due, dups>>

\* at-least-once delivery: a notification reaches the session a second time
DuplicateDelivery(c) ==
  /\ c \in subscribed
  /\ dups < MaxDups
  /\ local[c].loaded
  /\ dups' = dups + 1
  /\ due' = [due EXCEPT ![c] = @ + 1]
  /\ UNCHANGED <<now, dbVars, cliVars, failures, calls, histVars, subscribed, reading>>

\* ---------------------------------------------------------------------
\* handlePlaceBid
\* ---------------------------------------------------------------------
AcceptPcs == {"acc_updates", "acc_ask", "acc_genid", "acc_insert", "acc_fetch"}

Return(c, res) ==
  /\ pc' = [pc EXCEPT ![c] = "idle"]
  /\ outcome' = [outcome EXCEPT ![c] = res]

\* the Place Bid button opens BidModal, while table bids has room for the row
OpenBidModalUpTo(c, room) ==
  /\ pc[c] = "idle"
  /\ calls < MaxCalls
  /\ calls' = calls + 1
  /\ CanOpenBidModal(c)
  /\ Len(bids) + Cardinality({d \in Clients : pc[d] \in {"modal", "pb_insert"}}) < room
  /\ pc' = [pc EXCEPT ![c] = "modal"]
  /\ UNCHANGED obsVars
  /\ UNCHANGED <<now, dbVars, user, local, tgt, todo, ext, relCode, outcome,
                 failures, histVars>>

OpenBidModal(c) == OpenBidModalUpTo(c, MaxBids)

\* isLastMinute, computed from the session's copy of the Ask
isLastMinute(endTime) ==
  LET timeLeft == endTime - now
  IN timeLeft > 0 /\ timeLeft < SnipeWindow

\* submit: handlePlaceBid up to the insert request
SubmitBid(c) ==
  /\ pc[c] = "modal"
  /\ IF ~local[c].loaded \/ local[c].end = NoEnd
     THEN /\ Return(c, "bid_failed")
          /\ UNCHANGED ext
     ELSE /\ ext' = [ext EXCEPT ![c] = IF isLastMinute(local[c].end)
                                        THEN local[c].end + SnipeWindow ELSE NoEnd]
          /\ pc' = [pc EXCEPT ![c] = "pb_insert"]
          /\ outcome' = [outcome EXCEPT ![c] = "running"]
  /\ expEnd' = [expEnd EXCEPT ![c] = NoEnd]
  /\ UNCHANGED obsVars
  /\ UNCHANGED <<calls, now, dbVars, user, local, tgt, todo, relCode, failures,
                 changed, resolved, overlap, revealConflict, wantEnd>>

\* the end time the anti-snipe contract asks for when a bid is processed now
\* against end time e
ContractEnd(e) ==
  IF e # NoEnd /\ 0 < e - now /\ e - now < SnipeWindow THEN e + SnipeWindow ELSE e

\* INSERT INTO bids (policy "Users can insert their own bids": user_id is the caller's)
InsertBid(c) ==
  /\ pc[c] = "pb_insert"
  /\ bids' = Append(bids, [user |-> user[c], status |-> "pending"])
  /\ pc' = [pc EXCEPT ![c] = IF ext[c] # NoEnd THEN "pb_extend" ELSE "pb_fetch"]
  /\ expEnd' = [expEnd EXCEPT ![c] = ContractEnd(askEnd)]
  /\ wantEnd' = ContractEnd(wantEnd)
  /\ Publish(1)
  /\ UNCHANGED <<calls, now, askStatus, askEnd, archived, reveals, rels, user, local, tgt,
                 todo, ext, relCode, outcome, failures, changed, resolved, overlap,
                 revealConflict>>

InsertBidFail(c) ==
  /\ pc[c] = "pb_insert"
  /\ failures < MaxFailures
  /\ failures' = failures + 1
  /\ Return(c, "bid_failed")
  /\ UNCHANGED obsVars
  /\ UNCHANGED <<calls, now, dbVars, user, local, tgt, todo, ext, relCode, histVars>>

\* UPDATE asks SET auction_end_time = newEndTime
ExtendAuction(c) ==
  /\ pc[c] = "pb_extend"
  /\ askEnd' = IF CanUpdateAsk(user[c]) THEN ext[c] ELSE askEnd
  /\ pc' = [pc EXCEPT ![c] = "pb_fetch"]
  /\ Publish(IF CanUpdateAsk(user[c]) THEN 1 ELSE 0)
  /\ UNCHANGED <<calls, now, askStatus, archived, bids, reveals, rels, user, local, tgt,
                 todo, ext, relCode, outcome, failures, histVars>>

ExtendAuctionFail(c) ==
  /\ pc[c] = "pb_extend"
  /\ failures < MaxFailures
  /\ failures' = failures + 1
  /\ Return(c, "bid_failed")
  /\ UNCHANGED obsVars
  /\ UNCHANGED <<calls, now, dbVars, user, local, tgt, todo, ext, relCode, histVars>>

\* await fetchAsks(), then the handler returns
PlaceBidDone(c) ==
  /\ pc[c] = "pb_fetch"
  /\ local' = [local EXCEPT ![c] = Snapshot]
  /\ Return(c, "bid_ok")
  /\ UNCHANGED obsVars
  /\ UNCHANGED <<calls, now, dbVars, user, tgt, todo, ext, relCode, failures, histVars>>

\* ---------------------------------------------------------------------
\* handleAcceptBid
\* ---------------------------------------------------------------------
\* Accept button and confirm dialog: handleAcceptBid up to its updates (the
\* SELECT of the bid's user_id reads a column that no request writes)
AcceptBid(c, b) ==
  /\ pc[c] = "idle"
  /\ calls < MaxCalls
  /\ calls' = calls + 1
  /\ CanAcceptClick(c, b)
  /\ pc' = [pc EXCEPT ![c] = "acc_updates"]
  /\ tgt' = [tgt EXCEPT ![c] = b]
  /\ todo' = [todo EXCEPT ![c] = DOMAIN local[c].bstat]
  /\ outcome' = [outcome EXCEPT ![c] = "running"]
  /\ changed' = [changed EXCEPT ![c] = FALSE]
  /\ resolved' = [resolved EXCEPT ![c] = (askStatus = "completed")]
  /\ overlap' = \E d \in Clients \ {c} : pc[d] \in AcceptPcs /\ tgt[d] # b
  /\ UNCHANGED obsVars
  /\ UNCHANGED <<now, dbVars, user, local, ext, relCode, failures, expEnd,
                 revealConflict, wantEnd>>

newStatus(c, b) == IF b = tgt[c] THEN "accepted" ELSE "rejected"

\* pc after one of the Promise.all updates came back
AfterUpdate(c, left) ==
  IF pc[c] = "acc_updates"
  THEN IF left = {} THEN "acc_ask" ELSE "acc_updates"
  ELSE IF left = {} THEN "idle" ELSE "acc_drain"

\* one of the concurrent UPDATE bids requests is served
UpdateOneBid(c, b) ==
  /\ pc[c] \in {"acc_updates", "acc_drain"}
  /\ b \in todo[c]
  /\ UpdateBidStatus(c, b, newStatus(c, b))
  /\ todo' = [todo EXCEPT ![c] = @ \ {b}]
  /\ pc' = [pc EXCEPT ![c] = AfterUpdate(c, todo[c] \ {b})]
  /\ Publish(IF ~CanUpdateBid(user[c]) THEN 0
             ELSE IF AcceptanceFires(bids[b].status, newStatus(c, b)) THEN 2 ELSE 1)
  /\ UNCHANGED <<calls, now, askEnd, archived, rels, user, local, tgt, ext, relCode,
                 outcome, failures, resolved, expEnd, overlap, wantEnd>>

\* one of them returns an error: Promise.all rejects, the catch block runs,
\* the other requests stay in flight
UpdateOneBidFail(c, b) ==
  /\ pc[c] \in {"acc_updates", "acc_drain"}
  /\ b \in todo[c]
  /\ failures < MaxFailures
  /\ failures' = failures + 1
  /\ todo' = [todo EXCEPT ![c] = @ \ {b}]
  /\ pc' = [pc EXCEPT ![c] = IF todo[c] \ {b} = {} THEN "idle" ELSE "acc_drain"]
  /\ outcome' = [outcome EXCEPT ![c] = "accept_failed"]
  /\ UNCHANGED obsVars
  /\ UNCHANGED <<calls, now, dbVars, user, local, tgt, ext, relCode, histVars>>

\* UPDATE asks SET auction_status = 'completed'; its error is not looked at
UpdateAsk(c) ==
  /\ pc[c] = "acc_ask"
  /\ askStatus' = IF CanUpdateAsk(user[c]) THEN "completed" ELSE askStatus
  /\ changed' = [changed EXCEPT ![c] = @ \/ askStatus' # askStatus]
  /\ pc' = [pc EXCEPT ![c] = "acc_genid"]
  /\ Publish(IF CanUpdateAsk(user[c]) THEN 1 ELSE 0)
  /\ UNCHANGED <<calls, now, askEnd, archived, bids, reveals, rels, user, local, tgt,
                 todo, ext, relCode, outcome, failures, resolved, expEnd, overlap,
                 revealConflict, wantEnd>>

UpdateAskFail(c) ==
  /\ pc[c] = "acc_ask"
  /\ failures < MaxFailures
  /\ failures' = failures + 1
  /\ pc' = [pc EXCEPT ![c] = "acc_genid"]
  /\ UNCHANGED obsVars
  /\ UNCHANGED <<calls, now, dbVars, user, local, tgt, todo, ext, relCode, outcome,
                 histVars>>

\* createRelationship: generateRelationshipId
GenerateId(c) ==
  /\ pc[c] = "acc_genid"
  /\ relCode' = [relCode EXCEPT ![c] = generateRelationshipId(bids[tgt[c]].user, user[c])]
  /\ pc' = [pc EXCEPT ![c] = "acc_insert"]
  /\ UNCHANGED obsVars
  /\ UNCHANGED <<calls, now, dbVars, user, local, tgt, todo, ext, outcome, failures,
                 histVars>>

GenerateIdFallback(c) ==
  /\ pc[c] = "acc_genid"
  /\ failures < MaxFailures
  /\ failures' = failures + 1
  /\ relCode' = [relCode EXCEPT ![c] = fallbackRelationshipId(bids[tgt[c]].user, user[c])]
  /\ pc' = [pc EXCEPT ![c] = "acc_insert"]
  /\ UNCHANGED obsVars
  /\ UNCHANGED <<calls, now, dbVars, user, local, tgt, todo, ext, outcome, changed,
                 resolved, expEnd, overlap, revealConflict, wantEnd>>

\* createRelationship: INSERT INTO relationships; a duplicate relationship_id
\* is an error, which handleAcceptBid throws
InsertRelationship(c) ==
  LET row == [bid |-> tgt[c], pianist |-> bids[tgt[c]].user, soloist |-> user[c],
              code |-> relCode[c]]
      refused == CodeTaken(relCode[c]) \/ ~CanInsertRelationship(user[c], row)
  IN /\ pc[c] = "acc_insert"
     /\ IF refused
        THEN /\ Return(c, "accept_failed")
             /\ UNCHANGED rels
        ELSE /\ rels' = Append(rels, row)
             /\ pc' = [pc EXCEPT ![c] = "acc_fetch"]
             /\ UNCHANGED outcome
     /\ UNCHANGED obsVars
     /\ UNCHANGED <<calls, now, askStatus, askEnd, archived, bids, reveals, user, local,
                    tgt, todo, ext, relCode, failures, changed, resolved, expEnd,
                    overlap, revealConflict, wantEnd>>

InsertRelationshipFail(c) ==
  /\ pc[c] = "acc_insert"
  /\ failures < MaxFailures
  /\ failures' = failures + 1
  /\ Return(c, "accept_failed")
  /\ UNCHANGED obsVars
  /\ UNCHANGED <<calls, now, dbVars, user, local, tgt, todo, ext, relCode, histVars>>

\* await fetchAsks(), the success alert, and the handler returns
AcceptDone(c) ==
  /\ pc[c] = "acc_fetch"
  /\ local' = [local EXCEPT ![c] = Snapshot]
  /\ Return(c, "accept_ok")
  /\ UNCHANGED obsVars
  /\ UNCHANGED <<calls, now, dbVars, user, tgt, todo, ext, relCode, failures, histVars>>

\* ---------------------------------------------------------------------
\* handleAcceptBid called with a bid id that the Ask does not have
\* ---------------------------------------------------------------------
\* an id that no row of table bids carries
UnknownBid == MaxBids + 1

\* shared/ContactCard.tsx: ask.bids.find(...) finds nothing and the handler
\* returns, without an alert and without a request
AcceptUnknownBid(c) ==
  /\ pc[c] = "idle"
  /\ calls < MaxCalls
  /\ calls' = calls + 1
  /\ local[c].loaded
  /\ tgt' = [tgt EXCEPT ![c] = UnknownBid]
  /\ outcome' = [outcome EXCEPT ![c] = "returned"]
  /\ changed' = [changed EXCEPT ![c] = FALSE]
  /\ UNCHANGED obsVars
  /\ UNCHANGED <<now, dbVars, user, local, pc, todo, ext, relCode, failures, resolved,
                 expEnd, overlap, revealConflict, wantEnd>>

\* desktop/Marketplace.tsx, PlatformWrapper.tsx: the handler goes straight to
\* the updates of ask.bids
AcceptUnknownBidDesktop(c) ==
  /\ pc[c] = "idle"
  /\ calls < MaxCalls
  /\ calls' = calls + 1
  /\ local[c].loaded
  /\ tgt' = [tgt EXCEPT ![c] = UnknownBid]
  /\ todo' = [todo EXCEPT ![c] = DOMAIN local[c].bstat]
  /\ pc' = [pc EXCEPT ![c] = IF local[c].bstat = <<>> THEN "dsk_fetch" ELSE "dsk_updates"]
  /\ outcome' = [outcome EXCEPT ![c] = "running"]
  /\ changed' = [changed EXCEPT ![c] = FALSE]
  /\ UNCHANGED obsVars
  /\ UNCHANGED <<now, dbVars, user, local, ext, relCode, failures, resolved, expEnd,
                 overlap, revealConflict, wantEnd>>

\* one of its UPDATE bids requests is served
UpdateOneBidDesktop(c, b) ==
  /\ pc[c] = "dsk_updates"
  /\ b \in todo[c]
  /\ UpdateBidStatus(c, b, newStatus(c, b))
  /\ todo' = [todo EXCEPT ![c] = @ \ {b}]
  /\ pc' = [pc EXCEPT ![c] = IF todo[c] \ {b} = {} THEN "dsk_fetch" ELSE "dsk_updates"]
  /\ Publish(IF ~CanUpdateBid(user[c]) THEN 0
             ELSE IF AcceptanceFires(bids[b].status, newStatus(c, b)) THEN 2 ELSE 1)
  /\ UNCHANGED <<calls, now, askEnd, archived, rels, user, local, tgt, ext, relCode,
                 outcome, failures, resolved, expEnd, overlap, wantEnd>>

\* await fetchAsks(), and the handler returns without an alert
AcceptDesktopDone(c) ==
  /\ pc[c] = "dsk_fetch"
  /\ local' = [local EXCEPT ![c] = Snapshot]
  /\ Return(c, "returned")
  /\ UNCHANGED obsVars
  /\ UNCHANGED <<calls, now, dbVars, user, tgt, todo, ext, relCode, failures, histVars>>

NextUnknown ==
  \/ Tick
  \/ \E c \in Clients : Fetch(c)
  \/ \E c \in Clients : AcceptUnknownBid(c)
  \/ \E c \in Clients : AcceptUnknownBidDesktop(c)
  \/ \E c \in Clients : \E b \in 1..MaxBids : UpdateOneBidDesktop(c, b)
  \/ \E c \in Clients : AcceptDesktopDone(c)

\* ---------------------------------------------------------------------
\* Archival
\* ---------------------------------------------------------------------
\* the Delete Ask button is rendered
CanArchiveClick(c) ==
  /\ local[c].loaded
  /\ UserType(user[c]) = "soloist"
  /\ isMyAsk(c)
  /\ ~local[c].archived
  /\ hasAcceptedBid(local[c])
  /\ local[c].status = "completed"

\* handleArchiveAsk: UPDATE asks SET archived_at = now
ArchiveAsk(c) ==
  /\ pc[c] = "idle"
  /\ calls < MaxCalls
  /\ calls' = calls + 1
  /\ CanArchiveClick(c)
  /\ archived' = (archived \/ CanUpdateAsk(user[c]))
  /\ pc' = [pc EXCEPT ![c] = "ar_fetch"]
  /\ outcome' = [outcome EXCEPT ![c] = "running"]
  /\ Publish(IF CanUpdateAsk(user[c]) THEN 1 ELSE 0)
  /\ UNCHANGED <<now, askStatus, askEnd, bids, reveals, rels, user, local, tgt, todo, ext,
                 relCode, failures, histVars>>

\* the update returns an error: the catch block alerts
ArchiveAskFail(c) ==
  /\ pc[c] = "idle"
  /\ calls < MaxCalls
  /\ calls' = calls + 1
  /\ CanArchiveClick(c)
  /\ failures < MaxFailures
  /\ failures' = failures + 1
  /\ outcome' = [outcome EXCEPT ![c] = "archive_failed"]
  /\ UNCHANGED obsVars
  /\ UNCHANGED <<now, dbVars, user, local, pc, tgt, todo, ext, relCode, histVars>>

\* await fetchAsks(), then the handler returns
ArchiveDone(c) ==
  /\ pc[c] = "ar_fetch"
  /\ local' = [local EXCEPT ![c] = Snapshot]
  /\ Return(c, "archive_ok")
  /\ UNCHANGED obsVars
  /\ UNCHANGED <<calls, now, dbVars, user, tgt, todo, ext, relCode, failures, histVars>>

\* an hour goes by while no request is in flight
HourPasses ==
  /\ now < MaxHours * HourTicks
  /\ \A c \in Clients : pc[c] \in {"idle", "modal"}
  /\ now' = now + HourTicks
  /\ UNCHANGED obsVars
  /\ UNCHANGED <<calls, dbVars, cliVars, failures, histVars>>

\* auto_archive_old_auctions(). asks.updated_at is not a column of
\* docs/supabase_struct.sql: its comparison is left open, and where the column
\* is missing the statement raises and archives nothing (a stuttering step).
AutoArchive ==
  /\ ~archived
  /\ \/ askStatus = "completed" /\ \E updatedBefore \in BOOLEAN : updatedBefore
     \/ askStatus = "expired" /\ askEnd # NoEnd /\ askEnd < now - HourTicks
     \/ askEnd # NoEnd /\ askEnd < now - HourTicks /\ askStatus = "active"
  /\ archived' = TRUE
  /\ Publish(1)
  /\ UNCHANGED <<calls, now, askStatus, askEnd, bids, reveals, rels, cliVars, failures,
                 histVars>>

ArchiveStep ==
  \/ \E c \in Clients : ArchiveAsk(c)
  \/ \E c \in Clients : ArchiveAskFail(c)
  \/ \E c \in Clients : ArchiveDone(c)
  \/ HourPasses
  \/ AutoArchive

\* ---------------------------------------------------------------------
\* Acceptances on the owner's other Asks, one after the other
\* ---------------------------------------------------------------------
\* createRelationship run to its end by session c for a bid of pianist p on
\* another Ask of c's user: the code as generated or, when lookupFails, the
\* fallback; handleAcceptBid succeeds or throws with its result
CreateRelationship(c, p, lookupFails) ==
  LET code == IF lookupFails THEN fallbackRelationshipId(p, user[c])
              ELSE generateRelationshipId(p, user[c])
      row == [bid |-> NoBid, pianist |-> p, soloist |-> user[c], code |-> code]
      refused == CodeTaken(code) \/ ~CanInsertRelationship(user[c], row)
  IN /\ pc[c] = "idle"
     /\ Len(rels) < MaxRels
     /\ relCode' = [relCode EXCEPT ![c] = code]
     /\ rels' = IF refused THEN rels ELSE Append(rels, row)
     /\ outcome' = [outcome EXCEPT ![c] = IF refused THEN "accept_failed" ELSE "accept_ok"]
     /\ UNCHANGED obsVars
     /\ UNCHANGED <<now, askStatus, askEnd, archived, bids, reveals, user, local, pc, tgt,
                    todo, ext, failures, calls, changed, resolved, expEnd, overlap,
                    revealConflict, wantEnd>>

NextCodes ==
  \/ \E c \in Clients, p \in Pianists : CreateRelationship(c, p, FALSE)
  \/ \E c \in Clients, p \in Pianists : CreateRelationship(c, p, TRUE)

\* ---------------------------------------------------------------------
PlaceBidStep ==
  \/ \E c \in Clients : OpenBidModal(c)
  \/ \E c \in Clients : SubmitBid(c)
  \/ \E c \in Clients : InsertBid(c)
  \/ \E c \in Clients : InsertBidFail(c)
  \/ \E c \in Clients : ExtendAuction(c)
  \/ \E c \in Clients : ExtendAuctionFail(c)
  \/ \E c \in Clients : PlaceBidDone(c)

AcceptStep ==
  \/ \E c \in Clients : \E b \in 1..MaxBids : AcceptBid(c, b)
  \/ \E c \in Clients : \E b \in 1..MaxBids : UpdateOneBid(c, b)
  \/ \E c \in Clients : \E b \in 1..MaxBids : UpdateOneBidFail(c, b)
  \/ \E c \in Clients : UpdateAsk(c)
  \/ \E c \in Clients : UpdateAskFail(c)
  \/ \E c \in Clients : GenerateId(c)
  \/ \E c \in Clients : GenerateIdFallback(c)
  \/ \E c \in Clients : InsertRelationship(c)
  \/ \E c \in Clients : InsertRelationshipFail(c)
  \/ \E c \in Clients : AcceptDone(c)

Next ==
  \/ Tick
  \/ ExpireSweep
  \/ \E c \in Clients : Fetch(c)
  \/ PlaceBidStep
  \/ AcceptStep
  \/ ArchiveStep

\* the steps of session c's handlers
StepOf(c) ==
  \/ OpenBidModal(c)
  \/ SubmitBid(c)
  \/ InsertBid(c)
  \/ ExtendAuction(c)
  \/ PlaceBidDone(c)
  \/ \E b \in 1..MaxBids : AcceptBid(c, b)
  \/ \E b \in 1..MaxBids : UpdateOneBid(c, b)
  \/ UpdateAsk(c)
  \/ GenerateId(c)
  \/ InsertRelationship(c)
  \/ AcceptDone(c)

\* the sessions whose handler has requests in flight
Busy == {c \in Clients : pc[c] \notin {"idle", "modal"}}

\* one operation at a time, none failing: a handler runs only while no other
\* session's handler is in flight; the clock and the refetches are free
NextSequential ==
  \/ Tick
  \/ Busy = {} /\ ExpireSweep
  \/ \E c \in Clients : Fetch(c)
  \/ \E c \in Clients : Busy \subseteq {c} /\ StepOf(c)

\* the handlers of the owner's session, and the refetches of the session
\* that watches through its subscription
NextNotify ==
  \/ Tick
  \/ ExpireSweep
  \/ \E c \in Clients \ subscribed : Fetch(c)
  \/ \E c \in Clients \ subscribed : StepOf(c)
  \/ \E c \in Clients : FetchAsksServed(c)
  \/ \E c \in Clients : \E row \in reading[c] : FetchBidsServed(c, row)
  \/ \E c \in Clients : DuplicateDelivery(c)

\* bidding, the clock, the sweep and the automatic archival
NextWindow ==
  \/ Tick
  \/ ExpireSweep
  \/ \E c \in Clients : Fetch(c)
  \/ PlaceBidStep
  \/ HourPasses
  \/ AutoArchive

\* acceptances against the clock and the sweep
NextLate ==
  \/ Tick
  \/ ExpireSweep
  \/ \E c \in Clients : Fetch(c)
  \/ AcceptStep

\* placeBid calls only, none failing
NextStale ==
  \/ Tick
  \/ \E c \in Clients : Fetch(c)
  \/ \E c \in Clients : OpenBidModalUpTo(c, MaxStaleBids)
  \/ \E c \in Clients : SubmitBid(c)
  \/ \E c \in Clients : InsertBid(c)
  \/ \E c \in Clients : ExtendAuction(c)
  \/ \E c \in Clients : PlaceBidDone(c)

NextAccept ==
  \/ \E c \in Clients : Fetch(c)
  \/ AcceptStep

NextBidders ==
  \/ Tick
  \/ ExpireSweep
  \/ \E c \in Clients : Fetch(c)
  \/ PlaceBidStep

\* an owner session and a pianist session
Spec == Init /\ [][Next]_vars

\* two sessions of the owner accepting
SpecAccept == InitAccept /\ [][NextAccept]_vars

\* an owner session and a pianist session, taking turns
SpecSequential == Init /\ [][NextSequential]_vars

\* the owner's session, and a pianist's session watching the Ask
InitNotify ==
  InitObserved({[c \in Clients |-> IF c = "c1" THEN Soloist ELSE "p1"]}, {"c2"})

SpecNotify == InitNotify /\ [][NextNotify]_vars

\* an owner session and a pianist session, no acceptance
SpecWindow == Init /\ [][NextWindow]_vars

\* an owner session accepting while the clock runs and the sweep expires
SpecLate == Init /\ [][NextLate]_vars

\* two pianists bidding on an Ask that has an end time and no Bid yet
InitStale == InitBidders /\ bids = <<>> /\ askEnd = AuctionEnd0

SpecStale == InitStale /\ [][NextStale]_vars

\* acceptBid called with an id that is not a Bid of the Ask
SpecUnknown == Init /\ [][NextUnknown]_vars

\* a session of the owner and one of the owner's namesake
SpecNamesake == InitNamesake /\ [][NextAccept]_vars

\* successive acceptances across Asks
SpecCodes == InitNamesake /\ [][NextCodes]_vars

\* two pianist sessions bidding
SpecBidders == InitBidders /\ [][NextBidders]_vars

\* =====================================================================
\* Properties
\* =====================================================================
Accepted == {i \in DOMAIN bids : bids[i].status = "accepted"}
Pending == {i \in DOMAIN bids : bids[i].status = "pending"}
Returned(c) == pc[c] = "idle" /\ outcome[c] \in {"accept_ok", "accept_failed"}

\* C1: in every reachable state the Ask has at most one Bid with status
\* accepted, whatever the interleaving of the sessions' requests.
AtMostOneAccepted == Cardinality(Accepted) <= 1

\* C2: when an acceptBid call returns successfully, no Bid of the Ask is
\* pending, bids placed while the acceptance ran included.
NoPendingWhenAcceptReturns ==
  [][\A c \in Clients :
       (pc[c] = "acc_fetch" /\ pc'[c] = "idle") => \A i \in DOMAIN bids' : bids'[i].status # "pending"]_vars

\* C3: when two acceptBid calls for different Bids overlapped and both have
\* returned, exactly one of them succeeded.
ConcurrentAcceptsOneWinner ==
  (overlap /\ \A c \in Clients : Returned(c))
    => Cardinality({c \in Clients : outcome[c] = "accept_ok"}) = 1

\* C4: no Bid is stored by a request processed when the Ask's end time has
\* passed (now >= end time).
NoBidStoredAfterEnd ==
  [][askEnd # NoEnd /\ now >= askEnd => Len(bids') = Len(bids)]_vars

\* C5: once the Ask's status is completed or expired, no Bid is stored.
NoBidStoredWhenClosed ==
  [][(askStatus = "completed" \/ askStatus = "expired") => Len(bids') = Len(bids)]_vars

\* C6: an acceptBid call that failed has changed no stored Bid status and
\* not the Ask status.
FailedAcceptChangesNothing ==
  \A c \in Clients : (pc[c] = "idle" /\ outcome[c] = "accept_failed") => ~changed[c]

\* C7: an acceptBid call made when the Ask is already completed does not
\* succeed and changes no Bid status.
AcceptOnCompletedRefused ==
  \A c \in Clients : resolved[c] => (~changed[c] /\ outcome[c] # "accept_ok")

\* C8: there is at most one Relationship per (Ask, accepted Bid) pair,
\* also when acceptBid is called again for the same Bid.
OneRelationshipPerBid ==
  \A i, j \in DOMAIN rels : rels[i].bid = rels[j].bid => i = j

\* C9: there is at most one ContactReveal per (Ask, Bid) pair, also when
\* the same Bid is set to accepted repeatedly or accepts run concurrently.
OneRevealPerBid ==
  \A i, j \in DOMAIN reveals : reveals[i] = reveals[j] => i = j

\* a Bid was set to accepted a second time, finding its reveal already stored
RevealConflictHit ==
  /\ revealConflict
  /\ \E b \in Accepted : \E k \in DOMAIN reveals : reveals[k] = b

\* C10: when a placeBid has returned successfully, the stored end time is
\* E + 60 s if the bid was processed with 0 < E - now < 60 s, and E otherwise.
PlaceBidEndTime ==
  \A c \in Clients : (pc[c] = "idle" /\ outcome[c] = "bid_ok") => askEnd = expEnd[c]

\* C11: extensions accumulate: once the bids stored so far call for two
\* successive extensions (the second measured against the end time already
\* extended once), no request failed and no placeBid is still writing, the
\* stored end time is
\* E + 120 s.
ExtensionsAccumulate ==
  ((\A c \in Clients : pc[c] \notin {"pb_insert", "pb_extend"})
     /\ failures = 0
     /\ wantEnd = AuctionEnd0 + 2 * SnipeWindow)
    => askEnd = AuctionEnd0 + 2 * SnipeWindow

\* C12: the step that stores a Bid with less than 60 s left also moves the
\* end time: no state has the Bid stored and the end time still unextended.
BidAndExtensionAtomic ==
  [][(Len(bids') > Len(bids) /\ askEnd # NoEnd /\ 0 < askEnd - now
        /\ askEnd - now < SnipeWindow)
       => askEnd' = askEnd + SnipeWindow]_vars

\* C13: an acceptBid issued by a user who is not the Ask's owner does not
\* succeed, changes no stored status and creates no Relationship.
NonOwnerAcceptRefused ==
  \A c \in Clients :
    user[c] # Soloist
      => /\ outcome[c] # "accept_ok"
         /\ ~changed[c]
         /\ \A k \in DOMAIN rels : rels[k].soloist # user[c]

\* C14: with the operations run one at a time, at the moment an acceptBid of
\* Bid b returns successfully b is accepted, every other Bid of the Ask is
\* rejected, the Ask is completed, and there is exactly one Relationship and
\* exactly one ContactReveal for b.
AcceptPostconditions ==
  [][\A c \in Clients :
       (pc[c] = "acc_fetch" /\ pc'[c] = "idle")
         => /\ bids'[tgt[c]].status = "accepted"
            /\ \A i \in DOMAIN bids' : i # tgt[c] => bids'[i].status = "rejected"
            /\ askStatus' = "completed"
            /\ Cardinality({k \in DOMAIN rels' : rels'[k].bid = tgt[c]}) = 1
            /\ Cardinality({k \in DOMAIN reveals' : reveals'[k] = tgt[c]}) = 1]_vars

\* what a reader may see: nothing of an acceptance, or all of it
PreAcceptance(l) ==
  /\ l.status # "completed"
  /\ \A i \in DOMAIN l.bstat : l.bstat[i] = "pending"

PostAcceptance(l) ==
  /\ l.status = "completed"
  /\ Cardinality({i \in DOMAIN l.bstat : l.bstat[i] = "accepted"}) = 1
  /\ \A i \in DOMAIN l.bstat : l.bstat[i] # "pending"

\* C15: every copy of the Ask and its Bids that a session has fetched shows
\* either the state before an acceptance or the complete state after it.
AcceptanceSeenAsUnit ==
  \A c \in Clients :
    local[c].loaded => (PreAcceptance(local[c]) \/ PostAcceptance(local[c]))

\* C16: once the Ask's status is completed or expired, no step changes it.
TerminalStatusKept ==
  [][(askStatus = "completed" \/ askStatus = "expired") => askStatus' = askStatus]_vars

SamePairUpTo(k) ==
  {j \in 1..k : rels[j].pianist = rels[k].pianist /\ rels[j].soloist = rels[k].soloist}

\* C18: under sequential execution the n-th Relationship between a bidder and
\* a requester carries the bidder's and the requester's initials and the
\* suffix n: 0001, 0002, ... with no gaps.
SequentialCodes ==
  \A k \in DOMAIN rels :
    /\ rels[k].code.pre = getInitials(UserName(rels[k].pianist))
                            \o getInitials(UserName(rels[k].soloist))
    /\ rels[k].code.num = Cardinality(SamePairUpTo(k))

\* John Doe and Mary Smith matched three times: JDMS0001, JDMS0002, JDMS0003
ThirdCodeOfPair ==
  \E k \in DOMAIN rels :
    /\ rels[k].pianist = "p1"
    /\ rels[k].soloist = Soloist
    /\ rels[k].code = [pre |-> <<"J", "D", "M", "S">>, num |-> 3]
    /\ Cardinality(SamePairUpTo(k)) = 3

\* C19: in every reachable state the stored Relationships have pairwise
\* distinct codes, whatever the interleaving of the acceptances.
UniqueCodes ==
  \A i, j \in DOMAIN rels : rels[i].code = rels[j].code => i = j

\* an acceptance generated a code that another row already carried, and its
\* insert was refused (no request having failed otherwise)
DuplicateCodeRefused ==
  /\ failures = 0
  /\ \E c \in Clients :
       /\ pc[c] = "idle"
       /\ outcome[c] = "accept_failed"
       /\ \E k \in DOMAIN rels : rels[k].code = relCode[c]

\* C20: an acceptance whose lookup of existing Relationships failed used a
\* code ending in the requester's initials and 0001, and has completed
\* successfully.
FallbackAcceptSucceeds ==
  [][\A c \in Clients, p \in Pianists :
       CreateRelationship(c, p, TRUE)
         => /\ SubSeq(relCode'[c].pre, 3, 4) = getInitials(UserName(user[c]))
            /\ relCode'[c].num = FirstInstance
            /\ outcome'[c] = "accept_ok"]_vars

\* no handler and no refetch of session c is under way
Settled(c) == pc[c] \in {"idle", "modal"} /\ due[c] = 0 /\ reading[c] = {}

\* C21: once no write is under way and every refetch called by a notification
\* has completed, each subscribed session's copy of the Ask and its Bids
\* equals the stored rows.
ObserversCatchUp ==
  (\A c \in Clients : Settled(c)) => \A c \in subscribed : local[c] = Snapshot

\* C22: handling a notification again is idempotent: when the session's copy
\* is what one full refetch of the stored rows produced, the completion of
\* another refetch of the same rows leaves the copy as it is.
IdempotentRefetch ==
  [][\A c \in Clients : \A row \in reading[c] :
       (FetchBidsServed(c, row) /\ row = AskRow /\ local[c] = Snapshot)
         => local'[c] = local[c]]_vars

\* a notification was delivered twice, both refetches have completed, and the
\* session's copy shows the stored Ask and its Bids
DuplicateProcessed ==
  \E c \in subscribed :
    /\ dups > 0
    /\ Settled(c)
    /\ bids # <<>>
    /\ local[c] = Snapshot

\* C23: an acceptBid called with a bid id that the Ask does not have changes
\* no Bid status and no Ask status, and returns as failed.
UnknownBidRefused ==
  \A c \in Clients :
    tgt[c] = UnknownBid
      => /\ ~changed[c]
         /\ pc[c] = "idle" => outcome[c] = "accept_failed"

\* C24: an Ask without an auction end time keeps having none and does not
\* become expired, whatever placeBid calls, expiry sweeps and automatic
\* archival runs take place.
NoWindowNoExpiry ==
  [][askEnd = NoEnd
       => (askEnd' = NoEnd /\ (askStatus' = "expired" => askStatus = "expired"))]_vars

\* an Ask without end time, still active and unarchived more than an hour
\* into the run, on which a placeBid was attempted
NoWindowTried ==
  /\ askEnd = NoEnd
  /\ askStatus = "active"
  /\ ~archived
  /\ now > HourTicks
  /\ failures = 0
  /\ \E c \in Clients : pc[c] = "idle" /\ outcome[c] = "bid_failed"

\* C25: on every card that shows the statistics, the count is the number of
\* pending Bids, the lowest is the least amount among the pending Bids and
\* the average is their mean amount (to the nearest unit, as displayed).
StatsOverPending ==
  \A c \in Clients :
    (local[c].loaded /\ local[c].bstat # <<>>)
      => LET P == {i \in DOMAIN bids : i \in DOMAIN local[c].bstat
                                        /\ local[c].bstat[i] = "pending"}
             n == Cardinality(P)
             d == averageBid(local[c]) * n - SumAmounts(P)
         IN /\ totalBids(local[c]) = n
            /\ (P # {} => (/\ \A i \in P : lowestBid(local[c]) <= Amount(bids[i].user)
                           /\ \E j \in P : lowestBid(local[c]) = Amount(bids[j].user)
                           /\ 2 * d <= n
                           /\ 0 - 2 * d <= n))

\* the latest of the session's copies of the Bids by the session's user
MostRecentBidOf(c) ==
  LET mine == {i \in DOMAIN local[c].bstat : bids[i].user = user[c]}
  IN IF mine = {} THEN NoBid ELSE CHOOSE i \in mine : \A j \in mine : j <= i

\* C26: the active bid a pianist's card shows is the most recent Bid of that
\* pianist on the Ask, whatever its status, and none when there is no such Bid.
ActiveBidIsMostRecent ==
  \A c \in Clients :
    (local[c].loaded /\ UserType(user[c]) = "pianist")
      => myActiveBid(c) = MostRecentBidOf(c)

\* a party's block: the first letter of each of the first two tokens of the
\* name, the filler letter X where a token is missing
InitialsBlock(name) ==
  LET tokens == SelectSeq(name, LAMBDA t : Len(t) > 0)
  IN [i \in 1..2 |-> IF i <= Len(tokens) THEN Upper(tokens[i][1]) ELSE "X"]

\* C27: every stored collaboration code is the bidder's block followed by the
\* requester's block, each block made of the first letters of the party's
\* first two name tokens with a filler letter for a missing token.
CodeBlocksFromTokens ==
  \A k \in DOMAIN rels :
    rels[k].code.pre = InitialsBlock(UserName(rels[k].pianist))
                         \o InitialsBlock(UserName(rels[k].soloist))

\* C28: in every reachable stored state, if some Bid of the Ask is accepted
\* then the Ask's status is completed.
AcceptedImpliesCompleted == Accepted # {} => askStatus = "completed"

\* a Bid is accepted on an Ask whose end time has passed, where the sweep
\* expires active Asks
AcceptedPastEnd ==
  /\ Accepted # {}
  /\ askEnd # NoEnd
  /\ askEnd < now
  /\ askStatus = "completed"

\* C29: no step lowers the Ask's stored end time, however the placeBid calls
\* of sessions holding stale copies interleave.
EndTimeNeverDecreases ==
  [][(askEnd # NoEnd) => (askEnd' # NoEnd /\ askEnd' >= askEnd)]_vars

\* both sessions have placed a bid in the final minute, each sending its
\* update of the end time, one of them computed before the other's bid
StaleExtensionsSent ==
  /\ \A c \in Clients : pc[c] = "idle" /\ outcome[c] = "bid_ok" /\ ext[c] # NoEnd
  /\ Len(bids) >= 2
  /\ askEnd # NoEnd

\* C30: for every end time a session holds and every clock value, the
\* countdown timer, the ask card and bid placement agree on whether the
\* auction is closed; at now = end all three take it as closed.
ExpiryChecksAgree ==
  \A c \in Clients :
    (local[c].loaded /\ local[c].end # NoEnd)
      => /\ timerIsExpired(local[c].end) <=> isAuctionExpired(local[c])
         /\ timerIsExpired(local[c].end) <=> ~(local[c].end - now > 0)

====
